---- MODULE Spec2Model ----
(***************************************************************************)
(* A model of the watermark editor of src/src/App.tsx: the watermark       *)
(* store (watermarks, selectedId), the drag gesture (isDragging), the      *)
(* asynchronous image load (FileReader, Image) and the compositor          *)
(* (drawCanvas on a 2D drawing context).                                   *)
(*                                                                         *)
(* JavaScript numbers that are divided are modelled as exact rationals     *)
(* <<n, d>> in lowest terms with d > 0; floating-point rounding is not     *)
(* modelled.  React commits the state updates of one event handler before  *)
(* the next event is delivered, so one handler is one action; inside a     *)
(* handler the state variables read are those of the last render.          *)
(***************************************************************************)
EXTENDS Integers, Sequences, FiniteSets, TLC

VARIABLES
  image,           \* the loaded image, NoImage for null
  watermarks,      \* the collection, in paint order
  selectedId,      \* the id selected, or Null
  isDragging,      \* the drag gesture: TRUE is Dragging, FALSE is Idle
  fileInputValue,  \* the file the file input holds, "" for none
  loads,           \* the file loads in flight
  canvas,          \* the canvas behind canvasRef.current
  drawIdx,         \* the watermark drawCanvas draws next, 0 outside the loop
  op,              \* the handler that ran last, and its input
  requested,       \* the file the user's last upload or reset asks for
  events           \* the number of events handled

vars == <<image, watermarks, selectedId, isDragging,
          fileInputValue, loads, canvas, drawIdx, op, requested, events>>

(***************************************************************************)
(* Bounds of the model.                                                    *)
(***************************************************************************)
MaxEvents == 6

MaxDrawn == 2

(***************************************************************************)
(* Numbers.                                                                *)
(***************************************************************************)
Abs(n) == IF n < 0 THEN -n ELSE n

RECURSIVE Gcd(_, _)
Gcd(a, b) == IF b = 0 THEN a ELSE Gcd(b, a % b)

\* The rational n/d in lowest terms (d # 0).
Rat(n, d) ==
  LET g == Gcd(Abs(n), Abs(d))
      s == IF d < 0 THEN -1 ELSE 1
  IN  <<(s * n) \div g, (s * d) \div g>>

Num(n) == <<n, 1>>

Add(p, q) == Rat(p[1] * q[2] + q[1] * p[2], p[2] * q[2])

Sub(p, q) == Rat(p[1] * q[2] - q[1] * p[2], p[2] * q[2])

Mul(p, q) == Rat(p[1] * q[1], p[2] * q[2])

\* p / q for q # 0.
Div(p, q) == Rat(p[1] * q[2], p[2] * q[1])

Less(p, q) == p[1] * q[2] < q[1] * p[2]

MathMax(p, q) == IF Less(p, q) THEN q ELSE p

MathMin(p, q) == IF Less(q, p) THEN q ELSE p

(***************************************************************************)
(* The watermark store.                                                    *)
(***************************************************************************)
\* JavaScript null.
Null == "<null>"

\* !s for a string-or-null s: null and the empty string are falsy.
Falsy(s) == s = Null \/ s = ""

Anchors == {"top-left", "top-center", "top-right", "center",
            "bottom-left", "bottom-center", "bottom-right"}

Position == Anchors \cup {"custom"}

\* The texts stand for the source's four- and three-character defaults.
InitialWatermark ==
  [id |-> "1", text |-> "WMRK", fontSize |-> 40, color |-> "#ffffff",
   opacity |-> <<1, 2>>, position |-> "bottom-right",
   customX |-> Num(50), customY |-> Num(50), rotation |-> 0]

NewWatermark(newId) ==
  [id |-> newId, text |-> "NEW", fontSize |-> 40, color |-> "#ffffff",
   opacity |-> <<1, 2>>, position |-> "center",
   customX |-> Num(50), customY |-> Num(50), rotation |-> 0]

\* Values of Math.random().toString(36).substr(2, 9): the base-36 digits of
\* a random number in [0, 1) after "0."; Math.random() = 0 prints as "0" and
\* gives the empty string, and nothing keeps a value from being drawn twice.
NewIds == {"", "a"}

\* prev.filter(w => w.id !== id)
RECURSIVE Remaining(_, _)
Remaining(prev, id) ==
  IF prev = <<>> THEN <<>>
  ELSE IF Head(prev).id # id THEN <<Head(prev)>> \o Remaining(Tail(prev), id)
       ELSE Remaining(Tail(prev), id)

\* { ...w, ...updates }
Merge(w, updates) ==
  [f \in DOMAIN w |-> IF f \in DOMAIN updates THEN updates[f] ELSE w[f]]

\* setWatermarks(prev => prev.map(w => w.id === selectedId ? {...w, ...updates} : w))
\* behind the guard `if (!selectedId) return`.
UpdateSelected(prev, sel, updates) ==
  IF Falsy(sel) THEN prev
  ELSE [i \in 1..Len(prev) |->
          IF prev[i].id = sel THEN Merge(prev[i], updates) ELSE prev[i]]

\* watermarks.find(w => w.id !== id)?.id || null
Fallback(ws, id) ==
  LET others == Remaining(ws, id)
  IN  IF others # <<>> /\ ~Falsy(others[1].id) THEN others[1].id ELSE Null

\* Mutant of SelectionAfterDelete: the fallback is forgotten.
SelectionKept(ws, sel, id) == sel

\* The selection deleteWatermark(id) leaves.
SelectionAfterDelete(ws, sel, id) ==
  IF sel = id THEN Fallback(ws, id) ELSE sel

\* const selectedWatermark = watermarks.find(w => w.id === selectedId)
HasSelectedWatermark ==
  \E i \in 1..Len(watermarks) : watermarks[i].id = selectedId

SelectedWatermark ==
  watermarks[CHOOSE i \in 1..Len(watermarks) :
               /\ watermarks[i].id = selectedId
               /\ \A j \in 1..(i - 1) : watermarks[j].id # selectedId]

(***************************************************************************)
(* The canvas behind canvasRef.current: its internal size, what drawCanvas *)
(* last painted on it, and its 2D context.  exists = FALSE is a null ref.  *)
(***************************************************************************)
\* The drawing state of a context after canvas.width is set.
DefaultState ==
  [font |-> <<10, "sans-serif">>, fillStyle |-> "#000000",
   globalAlpha |-> Num(1), textAlign |-> "start",
   textBaseline |-> "alphabetic", transform |-> <<>>]

NoPaint == [base |-> "", texts |-> <<>>]

NoCanvas ==
  [exists |-> FALSE, width |-> 0, height |-> 0, painted |-> NoPaint,
   ctx |-> [state |-> DefaultState, stack |-> <<>>]]

\* A canvas element as it is mounted: 300 by 150, nothing painted.
MountedCanvas ==
  [NoCanvas EXCEPT !.exists = TRUE, !.width = 300, !.height = 150]

(***************************************************************************)
(* The pointer-to-position mapper and the drag gesture.                    *)
(***************************************************************************)
\* Mutant of GetCanvasCoordinates: the scale between the canvas's internal
\* and displayed size is left out.
GetCanvasCoordinatesUnscaled(e, rect, cv) ==
  IF ~cv.exists THEN [x |-> Num(0), y |-> Num(0)]
  ELSE [x |-> Num(e.clientX - rect.left), y |-> Num(e.clientY - rect.top)]

\* getCanvasCoordinates(e): e carries clientX/clientY (of touches[0] for a
\* touch event), rect is canvas.getBoundingClientRect().
GetCanvasCoordinates(e, rect, cv) ==
  IF ~cv.exists THEN [x |-> Num(0), y |-> Num(0)]
  ELSE LET scaleX == Div(Num(cv.width), Num(rect.width))
           scaleY == Div(Num(cv.height), Num(rect.height))
       IN  [x |-> Mul(Num(e.clientX - rect.left), scaleX),
            y |-> Mul(Num(e.clientY - rect.top), scaleY)]

\* Math.max(0, Math.min(100, (v / size) * 100))
Percent(v, size) ==
  MathMax(Num(0), MathMin(Num(100), Mul(Div(v, Num(size)), Num(100))))

\* The updates handleMove passes to updateSelectedWatermark.
MoveUpdates(e, rect, cv) ==
  LET c == GetCanvasCoordinates(e, rect, cv)
  IN  [customX |-> Percent(c.x, cv.width), customY |-> Percent(c.y, cv.height)]

\* Mutant of HandleMove: the isDragging test is dropped from the guard.
HandleMoveUnguarded(prev, dragging, img, cv, sel, e, rect) ==
  IF img.name = "" \/ ~cv.exists \/ Falsy(sel) THEN prev
  ELSE UpdateSelected(prev, sel, MoveUpdates(e, rect, cv))

\* handleMove(e) as a function of the state its closure reads: the
\* collection it leaves, given the collection prev it is applied to.
HandleMove(prev, dragging, img, cv, sel, e, rect) ==
  IF ~dragging \/ img.name = "" \/ ~cv.exists \/ Falsy(sel) THEN prev
  ELSE UpdateSelected(prev, sel, MoveUpdates(e, rect, cv))

\* handleStart's guard: `if (!image || !selectedId) return`.
StartAccepted(img, sel) == img.name # "" /\ ~Falsy(sel)

\* The collection handleStart(e) leaves: position forced to custom, then
\* handleMove(e) of the same render, which still reads the old isDragging.
HandleStart(prev, dragging, img, cv, sel, e, rect) ==
  IF ~StartAccepted(img, sel) THEN prev
  ELSE HandleMove(UpdateSelected(prev, sel, [position |-> "custom"]),
                  dragging, img, cv, sel, e, rect)

(***************************************************************************)
(* The compositor: drawCanvas on the canvas's 2D context.  A context is    *)
(* its drawing state and the stack of states ctx.save() pushed; a          *)
(* transform is the sequence of translate/rotate calls applied since the   *)
(* identity.                                                               *)
(***************************************************************************)
\* ctx.save()
Save(c) == [c EXCEPT !.stack = Append(@, c.state)]

\* Mutant of Restore: the state set for one watermark is left in place.
RestoreNothing(c) == c

\* ctx.restore(): pops the last saved state; nothing to pop, nothing done.
Restore(c) ==
  IF c.stack = <<>> THEN c
  ELSE [state |-> c.stack[Len(c.stack)],
        stack |-> SubSeq(c.stack, 1, Len(c.stack) - 1)]

\* ctx.globalAlpha = a: a value outside [0, 1] is ignored by the context.
SetGlobalAlpha(c, a) ==
  IF Less(a, Num(0)) \/ Less(Num(1), a) THEN c
  ELSE [c EXCEPT !.state.globalAlpha = a]

\* ctx.translate(x, y)
Translate(c, x, y) ==
  [c EXCEPT !.state.transform = Append(@, <<"translate", x, y>>)]

\* ctx.rotate((rotation * Math.PI) / 180), kept in degrees.
Rotate(c, rotation) ==
  [c EXCEPT !.state.transform = Append(@, <<"rotate", rotation>>)]

\* The advance of one glyph, in em: metrics are the platform's; the model
\* fixes one.
AdvancePerEm == <<3, 5>>

\* ctx.measureText(text).width under the context's font.
MeasureText(st, text) == Mul(Num(Len(text) * st.font[1]), AdvancePerEm)

\* The position switch of drawCanvas: the anchor point and the textAlign it
\* leaves, entered with textAlign = 'center'.
AnchorPoint(wm, cv, st) ==
  LET padding == Num(wm.fontSize)
      half    == Div(MeasureText(st, wm.text), Num(2))
      w       == Num(cv.width)
      h       == Num(cv.height)
      left    == Add(padding, half)
      right   == Sub(Sub(w, padding), half)
      midX    == Div(w, Num(2))
      bottom  == Sub(h, padding)
  IN  CASE wm.position = "top-left" ->
             [x |-> left, y |-> padding, textAlign |-> "left"]
        [] wm.position = "top-center" ->
             [x |-> midX, y |-> padding, textAlign |-> st.textAlign]
        [] wm.position = "top-right" ->
             [x |-> right, y |-> padding, textAlign |-> "right"]
        [] wm.position = "center" ->
             [x |-> midX, y |-> Div(h, Num(2)), textAlign |-> st.textAlign]
        [] wm.position = "bottom-left" ->
             [x |-> left, y |-> bottom, textAlign |-> "left"]
        [] wm.position = "bottom-center" ->
             [x |-> midX, y |-> bottom, textAlign |-> st.textAlign]
        [] wm.position = "bottom-right" ->
             [x |-> right, y |-> bottom, textAlign |-> "right"]
        [] wm.position = "custom" ->
             [x |-> Mul(Div(wm.customX, Num(100)), w),
              y |-> Mul(Div(wm.customY, Num(100)), h),
              textAlign |-> st.textAlign]
        [] OTHER -> [x |-> Num(0), y |-> Num(0), textAlign |-> st.textAlign]

\* ctx.fillText(text, 0, 0): what is painted is decided by the text and the
\* drawing state of the call.
FillText(c, text) == [text |-> text, state |-> c.state]

\* One iteration of watermarks.forEach in drawCanvas: the context it leaves
\* and the text it paints.
DrawWatermark(c, wm, cv) ==
  LET c1 == Save(c)
      c2 == [c1 EXCEPT !.state.font = <<wm.fontSize, "Inter, sans-serif">>,
                       !.state.fillStyle = wm.color]
      c3 == SetGlobalAlpha(c2, wm.opacity)
      c4 == [c3 EXCEPT !.state.textAlign = "center",
                       !.state.textBaseline = "middle"]
      a  == AnchorPoint(wm, cv, c4.state)
      c5 == [c4 EXCEPT !.state.textAlign = a.textAlign]
      c6 == Rotate(Translate(c5, a.x, a.y), wm.rotation)
  IN  [ctx |-> Restore(c6), paint |-> FillText(c6, wm.text)]

\* The head of drawCanvas: setting canvas.width/height resets the context
\* and clears the bitmap, then the image is drawn.
DrawBase(cv, img) ==
  [exists |-> TRUE, width |-> img.width, height |-> img.height,
   painted |-> [base |-> img.name, texts |-> <<>>],
   ctx |-> [state |-> DefaultState, stack |-> <<>>]]

\* The canvas after iteration i of the loop.
DrawStep(cv, wm) ==
  LET d == DrawWatermark(cv.ctx, wm, cv)
  IN  [cv EXCEPT !.ctx = d.ctx,
                 !.painted.texts = Append(@, d.paint)]

RECURSIVE DrawFrom(_, _, _)
DrawFrom(cv, ws, i) ==
  IF i > Len(ws) THEN cv ELSE DrawFrom(DrawStep(cv, ws[i]), ws, i + 1)

\* drawCanvas(), run after every change of image or watermarks.
DrawCanvas(cv, img, ws) ==
  IF ~cv.exists \/ img.name = "" THEN cv
  ELSE DrawFrom(DrawBase(cv, img), ws, 1)

(***************************************************************************)
(* The session: one action per event handler.                              *)
(***************************************************************************)
NoImage == [name |-> "", width |-> 0, height |-> 0]

\* The image files the user picks from.
Files == {[name |-> "A", width |-> 800, height |-> 600],
          [name |-> "B", width |-> 400, height |-> 200]}

\* What the controls of the selected watermark pass to
\* updateSelectedWatermark.
ControlInputs ==
  {[text |-> "A"], [fontSize |-> 10], [opacity |-> <<3, 10>>],
   [rotation |-> 30], [color |-> "#000000"], [position |-> "top-left"],
   [position |-> "custom"], [customX |-> Num(10)], [customY |-> Num(90)]}

\* The customX/customY sliders are rendered only for position = 'custom'.
ControlShown(u) ==
  /\ HasSelectedWatermark
  /\ (DOMAIN u \cap {"customX", "customY"} # {}
        => SelectedWatermark.position = "custom")

\* Pointer events on the canvas and the rectangles it is displayed in.
Pointers == {[clientX |-> 200, clientY |-> 175],
             [clientX |-> 1000, clientY |-> 0]}

Rects == {[left |-> 100, top |-> 100, width |-> 400, height |-> 300]}

\* The canvas element is rendered only while an image is loaded.
CanvasMounted == image.name # ""

Ids == {watermarks[i].id : i \in 1..Len(watermarks)}

\* The image the user's actions ask for after a handler ran: the file
\* chosen by an upload, none after 'remove image', else what it was.
RequestedAfter(name, arg) ==
  IF name = "handleImageUpload" /\ arg # "" THEN arg
  ELSE IF name = "reset" THEN ""
  ELSE requested

Handled(name, arg) ==
  /\ events < MaxEvents
  /\ events' = events + 1
  /\ op' = [name |-> name, arg |-> arg]
  /\ requested' = RequestedAfter(name, arg)

Init ==
  /\ image = NoImage
  /\ watermarks = <<InitialWatermark>>
  /\ selectedId = "1"
  /\ isDragging = FALSE
  /\ fileInputValue = ""
  /\ loads = {}
  /\ canvas = NoCanvas
  /\ drawIdx = 0
  /\ op = [name |-> "init", arg |-> ""]
  /\ requested = ""
  /\ events = 0

addWatermark ==
  \E newId \in NewIds :
    /\ Handled("addWatermark", newId)
    /\ watermarks' = Append(watermarks, NewWatermark(newId))
    /\ selectedId' = newId
    /\ canvas' = DrawCanvas(canvas, image, watermarks')
    /\ UNCHANGED <<image, isDragging, fileInputValue, loads, drawIdx>>

\* The delete button of a list item, rendered while watermarks.length > 1.
deleteWatermark ==
  \E id \in Ids :
    /\ Len(watermarks) > 1
    /\ Handled("deleteWatermark", id)
    /\ watermarks' = Remaining(watermarks, id)
    /\ selectedId' = SelectionAfterDelete(watermarks, selectedId, id)
    /\ canvas' = DrawCanvas(canvas, image, watermarks')
    /\ UNCHANGED <<image, isDragging, fileInputValue, loads, drawIdx>>

\* A click on a list item: setSelectedId(wm.id).
selectWatermark ==
  \E id \in Ids :
    /\ Handled("selectWatermark", id)
    /\ selectedId' = id
    /\ UNCHANGED <<image, watermarks, isDragging, fileInputValue, loads,
                   canvas, drawIdx>>

updateSelectedWatermark ==
  \E u \in ControlInputs :
    /\ ControlShown(u)
    /\ Handled("updateSelectedWatermark", u)
    /\ watermarks' = UpdateSelected(watermarks, selectedId, u)
    /\ canvas' = DrawCanvas(canvas, image, watermarks')
    /\ UNCHANGED <<image, selectedId, isDragging, fileInputValue, loads,
                   drawIdx>>

\* onMouseDown / onTouchStart with event e on a canvas displayed in rect.
StartEvent(e, rect) ==
  /\ CanvasMounted
  /\ isDragging' = (StartAccepted(image, selectedId) \/ isDragging)
  /\ watermarks' = HandleStart(watermarks, isDragging, image, canvas,
                               selectedId, e, rect)
  /\ canvas' = DrawCanvas(canvas, image, watermarks')
  /\ UNCHANGED <<image, selectedId, fileInputValue, loads, drawIdx>>

\* onMouseMove / onTouchMove
MoveEvent(e, rect) ==
  /\ CanvasMounted
  /\ watermarks' = HandleMove(watermarks, isDragging, image, canvas,
                              selectedId, e, rect)
  /\ canvas' = DrawCanvas(canvas, image, watermarks')
  /\ UNCHANGED <<image, selectedId, isDragging, fileInputValue, loads,
                 drawIdx>>

\* onMouseUp / onMouseLeave / onTouchEnd
EndEvent ==
  /\ CanvasMounted
  /\ isDragging' = FALSE
  /\ UNCHANGED <<image, watermarks, selectedId, fileInputValue, loads,
                 canvas, drawIdx>>

handleStart ==
  \E e \in Pointers, rect \in Rects :
    /\ Handled("handleStart", [e |-> e, rect |-> rect])
    /\ StartEvent(e, rect)

handleMove ==
  \E e \in Pointers, rect \in Rects :
    /\ Handled("handleMove", [e |-> e, rect |-> rect])
    /\ MoveEvent(e, rect)

handleEnd ==
  /\ Handled("handleEnd", "")
  /\ EndEvent

\* The change event of the file input: a file other than the one it holds,
\* or none (the dialog cancelled).  The read starts and the handler returns.
handleImageUpload ==
  \E f \in Files \cup {NoImage} :
    /\ f.name # fileInputValue
    /\ Handled("handleImageUpload", f.name)
    /\ fileInputValue' = f.name
    /\ loads' = IF f.name = "" THEN loads
                ELSE loads \cup {[file |-> f, stage |-> "reading"]}
    /\ UNCHANGED <<image, watermarks, selectedId, isDragging, canvas,
                   drawIdx>>

\* reader.onload: the Image is created and its src set.
readerOnload ==
  \E l \in loads :
    /\ l.stage = "reading"
    /\ Handled("readerOnload", l.file.name)
    /\ loads' = (loads \ {l}) \cup {[file |-> l.file, stage |-> "decoding"]}
    /\ UNCHANGED <<image, watermarks, selectedId, isDragging,
                   fileInputValue, canvas, drawIdx>>

\* img.onload: setImage(img).  A canvas element is mounted when there was
\* no image, its ref callback and the effect run drawCanvas.
imgOnload ==
  \E l \in loads :
    /\ l.stage = "decoding"
    /\ Handled("imgOnload", l.file.name)
    /\ loads' = loads \ {l}
    /\ image' = l.file
    /\ canvas' = DrawCanvas(IF CanvasMounted THEN canvas ELSE MountedCanvas,
                            image', watermarks)
    /\ UNCHANGED <<watermarks, selectedId, isDragging, fileInputValue,
                   drawIdx>>

\* The remove-image button, rendered while an image is loaded.  The canvas
\* element is unmounted; canvasRef.current keeps it.
reset ==
  /\ image.name # ""
  /\ Handled("reset", "")
  /\ image' = NoImage
  /\ fileInputValue' = ""
  /\ UNCHANGED <<watermarks, selectedId, isDragging, loads, canvas, drawIdx>>

Next ==
  \/ addWatermark
  \/ deleteWatermark
  \/ selectWatermark
  \/ updateSelectedWatermark
  \/ handleStart
  \/ handleMove
  \/ handleEnd
  \/ handleImageUpload
  \/ readerOnload
  \/ imgOnload
  \/ reset

Spec == Init /\ [][Next]_vars

(***************************************************************************)
(* The compositor alone: drawCanvas on a collection the controls can       *)
(* produce, one action per iteration of its loop.                          *)
(***************************************************************************)
Noted(name, arg) ==
  /\ op' = [name |-> name, arg |-> arg]
  /\ requested' = RequestedAfter(name, arg)
  /\ UNCHANGED events

\* The style a watermark is given by its controls: rotation, opacity,
\* fontSize, text.
DrawnStyles ==
  {<<0, <<1, 2>>, 40, "WMRK">>, <<30, <<3, 10>>, 10, "A">>,
   <<0, Num(1), 40, "">>}

DrawnWatermarks ==
  {[InitialWatermark EXCEPT !.position = p, !.rotation = st[1],
                            !.opacity = st[2], !.fontSize = st[3],
                            !.text = st[4], !.customX = Num(25)] :
     p \in Position, st \in DrawnStyles}

DrawnIds == <<"1", "a", "b", "c">>

DrawnCollections ==
  UNION {{[i \in 1..n |-> [f[i] EXCEPT !.id = DrawnIds[i]]] :
            f \in [1..n -> DrawnWatermarks]} : n \in 0..MaxDrawn}

DrawInit ==
  /\ image \in Files
  /\ watermarks \in DrawnCollections
  /\ selectedId = IF watermarks = <<>> THEN Null ELSE watermarks[1].id
  /\ isDragging = FALSE
  /\ fileInputValue = image.name
  /\ loads = {}
  /\ canvas = MountedCanvas
  /\ drawIdx = 0
  /\ op = [name |-> "init", arg |-> ""]
  /\ requested = image.name
  /\ events = 0

\* drawCanvas up to its loop.
drawBegin ==
  /\ drawIdx = 0
  /\ canvas.exists /\ image.name # ""
  /\ Noted("drawBegin", "")
  /\ canvas' = DrawBase(canvas, image)
  /\ drawIdx' = IF watermarks = <<>> THEN 0 ELSE 1
  /\ UNCHANGED <<image, watermarks, selectedId, isDragging, fileInputValue,
                 loads>>

\* One iteration of the loop.
drawNext ==
  /\ drawIdx \in 1..Len(watermarks)
  /\ Noted("drawNext", "")
  /\ canvas' = DrawStep(canvas, watermarks[drawIdx])
  /\ drawIdx' = IF drawIdx = Len(watermarks) THEN 0 ELSE drawIdx + 1
  /\ UNCHANGED <<image, watermarks, selectedId, isDragging, fileInputValue,
                 loads>>

DrawNext == drawBegin \/ drawNext

SpecDraw == DrawInit /\ [][DrawNext]_vars

(***************************************************************************)
(* The mapper alone: pointer events of a drag in progress, over a wider    *)
(* set of pointer positions and displayed rectangles.                      *)
(***************************************************************************)
MapPointers ==
  {[clientX |-> x, clientY |-> y] :
     x \in {-50, 300, 433, 900}, y \in {-20, 250, 700}}

MapRects ==
  {[left |-> 100, top |-> 100, width |-> 400, height |-> 300],
   [left |-> 0, top |-> 50, width |-> 333, height |-> 200],
   [left |-> 100, top |-> 100, width |-> 800, height |-> 600]}

MapInit ==
  /\ image \in Files
  /\ watermarks = <<[InitialWatermark EXCEPT !.position = "custom"],
                    NewWatermark("a")>>
  /\ selectedId = "1"
  /\ isDragging = TRUE
  /\ fileInputValue = image.name
  /\ loads = {}
  /\ canvas = DrawCanvas(MountedCanvas, image, watermarks)
  /\ drawIdx = 0
  /\ op = [name |-> "init", arg |-> ""]
  /\ requested = image.name
  /\ events = 0

mapStart ==
  \E e \in Pointers, rect \in Rects :
    /\ Noted("handleStart", [e |-> e, rect |-> rect])
    /\ StartEvent(e, rect)

mapMove ==
  \E e \in MapPointers, rect \in MapRects :
    /\ Noted("handleMove", [e |-> e, rect |-> rect])
    /\ MoveEvent(e, rect)

mapEnd ==
  /\ Noted("handleEnd", "")
  /\ EndEvent

MapNext == mapStart \/ mapMove \/ mapEnd

SpecMap == MapInit /\ [][MapNext]_vars

(***************************************************************************)
(* Properties of the store.                                                *)
(***************************************************************************)
\* C1: in every reachable state the selection is none or the id of a
\* watermark present in the collection.
C1_SelectionPresent == selectedId = Null \/ selectedId \in Ids

\* C1 witness: the selected watermark was deleted during a drag and the
\* selection fell back to an entry that is present.
C1_Witness ==
  /\ op.name = "deleteWatermark"
  /\ op.arg = "a"
  /\ selectedId = "1"
  /\ selectedId \in Ids
  /\ isDragging

\* The collection without its k-th entry.
WithoutEntry(ws, k) ==
  [i \in 1..(Len(ws) - 1) |-> IF i < k THEN ws[i] ELSE ws[i + 1]]

\* C2: deleteWatermark(id) removes exactly the entry with that id and keeps
\* the others in order; a deleted selection becomes the id of the first
\* remaining entry, or none when nothing remains; any other selection is
\* kept; an unknown id changes nothing.
C2_DeleteContract ==
  [][op'.name = "deleteWatermark" =>
       LET id == op'.arg
       IN  IF id \in Ids
           THEN /\ \E k \in 1..Len(watermarks) :
                     /\ watermarks[k].id = id
                     /\ watermarks' = WithoutEntry(watermarks, k)
                /\ selectedId' =
                     IF selectedId # id THEN selectedId
                     ELSE IF watermarks' = <<>> THEN Null
                     ELSE watermarks'[1].id
           ELSE watermarks' = watermarks /\ selectedId' = selectedId]_vars

\* C3: no two entries of the collection share an id.
C3_UniqueIds ==
  \A i, j \in 1..Len(watermarks) :
    i # j => watermarks[i].id # watermarks[j].id

\* C5: the collection is never empty, the delete button being offered only
\* while it holds more than one entry.
C5_NeverEmpty == watermarks # <<>>

\* The place of the selected watermark in the collection.
SelectedIndex ==
  CHOOSE i \in 1..Len(watermarks) :
    /\ watermarks[i].id = selectedId
    /\ \A j \in 1..(i - 1) : watermarks[j].id # selectedId

\* C4: updateSelectedWatermark(updates) changes only the fields named in
\* updates on the selected entry; every other field of it, every other
\* entry, the order and the selection are unchanged, and nothing changes
\* when the selection is none (so customX/customY survive anchor changes).
C4_UpdateFrame ==
  [][op'.name = "updateSelectedWatermark" =>
       /\ selectedId' = selectedId
       /\ Len(watermarks') = Len(watermarks)
       /\ selectedId = Null => watermarks' = watermarks
       /\ \A i \in 1..Len(watermarks) :
            IF HasSelectedWatermark /\ i = SelectedIndex
            THEN \A f \in DOMAIN watermarks[i] \ DOMAIN op'.arg :
                   watermarks'[i][f] = watermarks[i][f]
            ELSE watermarks'[i] = watermarks[i]]_vars

(***************************************************************************)
(* Properties of the drag gesture.                                         *)
(***************************************************************************)
\* C6: pointer-down moves the gesture from Idle to Dragging only if an
\* image is loaded and a watermark is selected, and then sets the selected
\* watermark's position to 'custom' and leaves all other watermarks
\* untouched; with no image or nothing selected it leaves the gesture and
\* the whole store unchanged.
C6_PointerDown ==
  [][op'.name = "handleStart" =>
       /\ (~isDragging /\ isDragging') =>
            /\ image.name # ""
            /\ selectedId # Null
            /\ HasSelectedWatermark
            /\ \A i \in 1..Len(watermarks) :
                 IF i = SelectedIndex
                 THEN watermarks'[i].position = "custom"
                 ELSE watermarks'[i] = watermarks[i]
       /\ (image.name = "" \/ selectedId = Null) =>
            /\ isDragging' = isDragging
            /\ watermarks' = watermarks
            /\ selectedId' = selectedId]_vars

\* C7: a pointer-move in Idle changes nothing in the store; pointer-up,
\* pointer-leave and touch-end return the gesture to Idle and change no
\* watermark; the gesture becomes Dragging only by a pointer-down and Idle
\* only by a pointer-up, so moves write only between the two.
C7_MoveOnlyWhileDragging ==
  [][/\ (op'.name = "handleMove" /\ ~isDragging) =>
          (watermarks' = watermarks /\ selectedId' = selectedId)
     /\ op'.name = "handleEnd" =>
          (~isDragging' /\ watermarks' = watermarks)
     /\ (isDragging' # isDragging) =>
          op'.name = (IF isDragging' THEN "handleStart" ELSE "handleEnd")
    ]_vars

\* C7 witness: a pointer-move during a drag has written the pointer's
\* position into the selected watermark.
C7_Witness ==
  /\ op.name = "handleMove"
  /\ isDragging
  /\ HasSelectedWatermark
  /\ SelectedWatermark.position = "custom"
  /\ SelectedWatermark.customX = Num(25)
  /\ SelectedWatermark.customY = Num(25)

(***************************************************************************)
(* Properties of the mapper.                                               *)
(***************************************************************************)
\* clamp(0, 100, 100 * n / d) for d > 0.
ClampPercent(n, d) ==
  IF n <= 0 THEN Num(0)
  ELSE IF n >= d THEN Num(100)
  ELSE Rat(100 * n, d)

InPercentRange(p) == ~Less(p, Num(0)) /\ ~Less(Num(100), p)

C9_ContextScoped ==
  /\ (drawIdx >= 1 \/ canvas.painted.base # "") =>
       canvas.ctx = [state |-> DefaultState, stack |-> <<>>]
  /\ \A i \in 1..Len(canvas.painted.texts) :
       LET p == canvas.painted.texts[i].state
           wm == watermarks[i]
       IN  /\ p.globalAlpha = wm.opacity
           /\ p.font[1] = wm.fontSize
           /\ p.fillStyle = wm.color
           /\ Len(p.transform) = 2
           /\ p.transform[1][1] = "translate"
           /\ p.transform[2] = <<"rotate", wm.rotation>>

\* C9 witness: a rotated watermark of opacity 0.3 has been painted and an
\* unrotated one of opacity 0.5 painted after it.
C9_Witness ==
  /\ Len(canvas.painted.texts) = 2
  /\ watermarks[1].rotation = 30
  /\ canvas.painted.texts[1].state.globalAlpha = <<3, 10>>
  /\ watermarks[2].rotation = 0
  /\ canvas.painted.texts[2].state.globalAlpha = <<1, 2>>
  /\ drawIdx = 0

\* The x of the left edge of a painted text: fillText(text, 0, 0) under a
\* translate to (x, y), aligned by textAlign.
PaintedLeft(p) ==
  LET x == p.state.transform[1][2]
      tw == MeasureText(p.state, p.text)
  IN  CASE p.state.textAlign = "left" -> x
        [] p.state.textAlign = "right" -> Sub(x, tw)
        [] OTHER -> Sub(x, Div(tw, Num(2)))

\* C10: for an unrotated watermark at a named anchor, with padding =
\* fontSize: at a left anchor the text's left edge is at x = padding, at a
\* right anchor its right edge is at x = width - padding, at a centre
\* anchor it is centred on width/2, and the anchor point of 'center' is
\* (width/2, height/2).
C10_EdgeOnPaddingLine ==
  \A i \in 1..Len(canvas.painted.texts) :
    LET p == canvas.painted.texts[i]
        wm == watermarks[i]
        tw == MeasureText(p.state, p.text)
        padding == Num(wm.fontSize)
        w == Num(canvas.width)
        h == Num(canvas.height)
    IN  (wm.rotation = 0 /\ wm.position \in Anchors) =>
          /\ wm.position \in {"top-left", "bottom-left"} =>
               PaintedLeft(p) = padding
          /\ wm.position \in {"top-right", "bottom-right"} =>
               Add(PaintedLeft(p), tw) = Sub(w, padding)
          /\ wm.position \in {"top-center", "center", "bottom-center"} =>
               Add(PaintedLeft(p), Div(tw, Num(2))) = Div(w, Num(2))
          /\ wm.position = "center" =>
               /\ p.state.transform[1][2] = Div(w, Num(2))
               /\ p.state.transform[1][3] = Div(h, Num(2))

(***************************************************************************)
(* Properties of the gesture under interleaving with the other actions.    *)
(***************************************************************************)
\* C11: whenever the gesture is Dragging, an image is loaded and the
\* selection is the id of a watermark present in the collection whose
\* position is 'custom'.
C11_DraggingHasTarget ==
  isDragging =>
    /\ image.name # ""
    /\ HasSelectedWatermark
    /\ SelectedWatermark.position = "custom"

\* C12: an accepted pointer-down writes the pointer's mapped position into
\* customX/customY of the selected watermark within the same event.
C12_DownWritesPosition ==
  (op.name = "handleStart" /\ StartAccepted(image, selectedId)) =>
    \A i \in 1..Len(watermarks) :
      watermarks[i].id = selectedId =>
        /\ watermarks[i].customX =
             ClampPercent(op.arg.e.clientX - op.arg.rect.left,
                          op.arg.rect.width)
        /\ watermarks[i].customY =
             ClampPercent(op.arg.e.clientY - op.arg.rect.top,
                          op.arg.rect.height)

(***************************************************************************)
(* Properties of the image load.                                           *)
(***************************************************************************)
\* C13: the loaded image is decided by the order of the user's actions, not
\* by the order in which reads and decodes complete: once no load is in
\* flight the image is the file last chosen, or none after 'remove image'
\* with no later upload.
C13_ImageFollowsActions == loads = {} => image.name = requested

====
